---- MODULE Spec2Model ----
(***************************************************************************)
(* Quiver (arrow) overlay of sleap/gui/overlays/pafs.py: QuiverPlot builds  *)
(* the point list of the arrow glyphs of one vector field, and paint hands  *)
(* that list to the painter as line segments.                               *)
(*                                                                          *)
(* Numbers.  numpy computes in float64; the model computes in exact         *)
(* arithmetic.  A rational is a pair <<n, d>> in lowest terms with d > 0.   *)
(* The one irrational operation of the code, the square root of            *)
(* line_length, is kept symbolic: a "surd" [c, r] stands for c * sqrt(r).   *)
(***************************************************************************)
EXTENDS Integers, Sequences, FiniteSets, TLC

VARIABLES
    field_x,      \* QuiverPlot.field_x: None, or an H x W array (rows of rationals)
    field_y,      \* QuiverPlot.field_y
    decimation,   \* QuiverPlot.decimation
    scale,        \* QuiverPlot.scale (a rational)
    points,       \* QuiverPlot.points: the list of (x, y) points
    rect,         \* QuiverPlot.rect: <<x, y, w, h>>
    lines,        \* what paint() drew last: the list of 2-point segments
    pc,           \* "new" (arguments chosen), "built" (constructed), "painted"
    frame,        \* the frame argument of MultiQuiverPlot: None, or an H x W x T array
    show,         \* the show argument: None, or [list |-> the channels to show]
    self_frame,   \* MultiQuiverPlot.frame
    show_list,    \* MultiQuiverPlot.show_list
    affinity_field, \* MultiQuiverPlot.affinity_field: the QuiverPlot items
    raised,       \* the exception the constructor raised, or "none"
    pen,          \* QuiverPlot.pen: its width
    arrays,       \* the frame arrays the caller owns, by name
    frame_id,     \* the name of the array passed as frame
    remembered,   \* an earlier call and its outcome, or None
    x_in,         \* hourglass_block: the shape of the input tensor
    num_filters,  \* hourglass_block: num_filters
    hg_depth,     \* hourglass_block: depth
    hg_out,       \* hourglass_block: [raised, layers], or None before the call
    dec_image,    \* _decimate: the image argument, with its memory
    dec_box,      \* _decimate: the box argument
    tile_means    \* _decimate: the array returned, or None before the call

\* the state of a MultiQuiverPlot and of the call that constructs it
multi_vars == <<frame, show, self_frame, show_list, affinity_field, raised>>

\* the caller's arrays over a series of calls
repeat_vars == <<arrays, frame_id, remembered>>

\* the state of a call of hourglass_block, and of a call of _decimate
hourglass_vars == <<x_in, num_filters, hg_depth, hg_out>>
decimate_vars == <<dec_image, dec_box, tile_means>>

vars == <<field_x, field_y, decimation, scale, points, rect, lines, pc, pen,
          multi_vars, repeat_vars, hourglass_vars, decimate_vars>>

\* Python's None, as the value of an absent field argument
None == [none |-> TRUE]

\* the parts of the state a specification does not use
NoRepeat == arrays = None /\ frame_id = None /\ remembered = None
NoHourglass == x_in = None /\ num_filters = None /\ hg_depth = None /\ hg_out = None
NoDecimate == dec_image = None /\ dec_box = None /\ tile_means = None

----------------------------------------------------------------------------
(* Exact rational arithmetic *)

Abs(n) == IF n < 0 THEN -n ELSE n

RECURSIVE Gcd(_, _)
Gcd(a, b) == IF b = 0 THEN a ELSE Gcd(b, a % b)

Rat(n, d) ==
    LET g == Gcd(Abs(n), Abs(d))
        s == IF d < 0 THEN -1 ELSE 1
    IN  <<(s * n) \div g, (s * d) \div g>>

RInt(n) == <<n, 1>>
RZero == <<0, 1>>
\* sums and comparisons go through the least common denominator, products
\* cancel crosswise first, so that intermediate integers stay small
RAdd(a, b) ==
    LET g == Gcd(a[2], b[2])
    IN  Rat(a[1] * (b[2] \div g) + b[1] * (a[2] \div g), (a[2] \div g) * b[2])
RNeg(a) == <<-a[1], a[2]>>
RSub(a, b) == RAdd(a, RNeg(b))
RMul(a, b) ==
    LET g1 == Gcd(Abs(a[1]), b[2])
        g2 == Gcd(Abs(b[1]), a[2])
    IN  Rat((a[1] \div g1) * (b[1] \div g2), (a[2] \div g2) * (b[2] \div g1))
\* a / b for b # 0
RDiv(a, b) == RMul(a, Rat(b[2], b[1]))
RLt(a, b) ==
    LET g == Gcd(a[2], b[2])
    IN  a[1] * (b[2] \div g) < b[1] * (a[2] \div g)
RLe(a, b) == ~RLt(b, a)
\* int(x) of Python: truncation toward zero
RTrunc(a) == IF a[1] >= 0 THEN a[1] \div a[2] ELSE -((-a[1]) \div a[2])

(* Surds: [c |-> rational, r |-> rational >= 0] stands for c * sqrt(r) *)
SRat(a) == [c |-> a, r |-> RInt(1)]
SSqrt(q) == [c |-> RInt(1), r |-> q]
SSquare(s) == RMul(RMul(s.c, s.c), s.r)
SIsZero(s) == SSquare(s) = RZero
SDivRat(s, a) == [c |-> RDiv(s.c, a), r |-> s.r]
\* rational a divided by the surd s (s # 0): a / (c sqrt r) = (a / (c r)) sqrt r
RDivS(a, s) == [c |-> RDiv(a, RMul(s.c, s.r)), r |-> s.r]
SMul(s, t) ==
    CASE s.r = t.r -> SRat(RMul(RMul(s.c, t.c), s.r))
      [] s.r = RInt(1) -> [c |-> RMul(s.c, t.c), r |-> t.r]
      [] t.r = RInt(1) -> [c |-> RMul(s.c, t.c), r |-> s.r]
\* the rational a surd denotes, when it denotes one
SToRat(s) ==
    CASE s.r = RInt(1) -> s.c
      [] s.c = RZero \/ s.r = RZero -> RZero
\* s > a for a surd s with c >= 0 and a rational a >= 0
SGtRat(s, a) == RLt(RMul(a, a), SSquare(s))

----------------------------------------------------------------------------
(* numpy arrays.                                                            *)
(* A 2-D field is [shape |-> <<H, W>>, at |-> [<<i, j>> |-> value]], indexed *)
(* from 0 as in Python.  A 3-D ndarray is kept with its memory: [shape,     *)
(* strides, buf], strides counted in elements, element (i, j, c) stored at   *)
(* buf[i*strides[1] + j*strides[2] + c*strides[3] + 1].                      *)

Idx2(H, W) == (0 .. H - 1) \X (0 .. W - 1)

NdGet(a, i, j, c) ==
    a.buf[i * a.strides[1] + j * a.strides[2] + c * a.strides[3] + 1]

Idx3(n0, n1, depth) == (0 .. n0 - 1) \X (0 .. n1 - 1) \X (0 .. depth - 1)

\* a fresh C-contiguous array of the given shape holding elem[<<i, j, c>>]
NdNew(n0, n1, depth, elem) ==
    [shape   |-> <<n0, n1, depth>>,
     strides |-> <<n1 * depth, depth, 1>>,
     buf     |-> [k \in 1 .. n0 * n1 * depth |->
                    elem[<<(k - 1) \div (n1 * depth),
                           ((k - 1) % (n1 * depth)) \div depth,
                           (k - 1) % depth>>]]]

\* NdStack with the two fields stacked in the other order
NdStackSwapped(a, b) ==
    NdNew(a.shape[1], a.shape[2], 2,
          [ijc \in Idx3(a.shape[1], a.shape[2], 2) |->
              IF ijc[3] = 0 THEN b.at[<<ijc[1], ijc[2]>>] ELSE a.at[<<ijc[1], ijc[2]>>]])

\* np.stack((a, b), axis=-1) of two 2-D fields
NdStack(a, b) ==
    NdNew(a.shape[1], a.shape[2], 2,
          [ijc \in Idx3(a.shape[1], a.shape[2], 2) |->
              IF ijc[3] = 0 THEN a.at[<<ijc[1], ijc[2]>>] ELSE b.at[<<ijc[1], ijc[2]>>]])

Min(a, b) == IF a < b THEN a ELSE b

\* image[:r, :c]: a view of the same memory
NdSlice(a, r, c) ==
    [a EXCEPT !.shape = <<Min(a.shape[1], r), Min(a.shape[2], c), a.shape[3]>>]

\* np.ravel(image): the elements in C (row-major) index order
NdRavel(a) ==
    LET n1 == a.shape[2]
        d  == a.shape[3]
    IN  [k \in 1 .. a.shape[1] * n1 * d |->
            NdGet(a, (k - 1) \div (n1 * d), ((k - 1) % (n1 * d)) \div d, (k - 1) % d)]

RECURSIVE RSum(_)
RSum(seq) == IF seq = <<>> THEN RZero ELSE RAdd(Head(seq), RSum(Tail(seq)))

\* the (a, b) offsets inside a tile, in index order
RECURSIVE TileOffsets(_, _, _)
TileOffsets(height, width, k) ==
    IF k = height * width THEN <<>>
    ELSE <<(<<k \div width, k % width>>)>> \o TileOffsets(height, width, k + 1)

\* TileElem with the tile strides left at the element strides (the factors
\* height and width forgotten): tiles that overlap
TileElemOverlap(flat, _strides, height, width, i, j, a, b, c) ==
    flat[i * _strides[1] + j * _strides[2]
         + a * _strides[1] + b * _strides[2] + c * _strides[3] + 1]

\* np.lib.stride_tricks.as_strided(flat, shape=(nrows, ncols, height, width,
\* depth), strides=(height * s0, width * s1, s0, s1, s2))[i, j, a, b, c]
TileElem(flat, _strides, height, width, i, j, a, b, c) ==
    flat[i * height * _strides[1] + j * width * _strides[2]
         + a * _strides[1] + b * _strides[2] + c * _strides[3] + 1]

_decimate(image, box) ==
    LET height   == box
        width    == box
        _nrows   == image.shape[1]
        _ncols   == image.shape[2]
        depth    == image.shape[3]
        _strides == image.strides
        nrows    == _nrows \div height
        _m       == _nrows % height
        ncols    == _ncols \div width
        _n       == _ncols % width
        img      == IF _m # 0 \/ _n # 0
                    THEN NdSlice(image, (nrows + 1) * box, (ncols + 1) * box)
                    ELSE image
        flat     == NdRavel(img)
        tiles(i, j, a, b, c) == TileElem(flat, _strides, height, width, i, j, a, b, c)
        swap     == _strides[1] < _strides[2]
        n0       == IF swap THEN ncols ELSE nrows
        n1       == IF swap THEN nrows ELSE ncols
        offs     == TileOffsets(height, width, 0)
        \* np.mean(tiles, axis=(2, 3))
        mean(i, j, c) ==
            RDiv(RSum([k \in 1 .. Len(offs) |->
                        IF swap THEN tiles(j, i, offs[k][1], offs[k][2], c)
                                ELSE tiles(i, j, offs[k][1], offs[k][2], c)]),
                 RInt(height * width))
    IN  NdNew(n0, n1, depth,
              [ijc \in Idx3(n0, n1, depth) |-> mean(ijc[1], ijc[2], ijc[3])])

----------------------------------------------------------------------------
(* QuiverPlot *)

(* Pen widths.  math.log(B, 20) is irrational for most B: a width is kept  *)
(* as [arg, root], standing for log_20(arg ^ (1/root)) = log_20(arg) / root, *)
(* so that 0.1 is log_20(20) / 10 and 4 is log_20(160000) = log_20(20 ^ 4).  *)

\* n ^ e, or cap where the power is above it
RECURSIVE PowCap(_, _, _)
PowCap(n, e, cap) ==
    IF e = 0 THEN 1
    ELSE LET rest == PowCap(n, e - 1, cap)
         IN  IF n = 0 THEN 0
             ELSE IF rest > cap \div n THEN cap ELSE rest * n

\* v < w for two widths: arg_v ^ root_w < arg_w ^ root_v
WLt(v, w) ==
    IF v.root = w.root THEN v.arg < w.arg
    ELSE LET cap == 2000000
         IN  PowCap(v.arg, w.root, cap) < PowCap(w.arg, v.root, cap)

\* math.log(B, 20), for B >= 1
Log20(B) == [arg |-> B, root |-> 1]
\* the literals 0.1 and 4 of line 115
WidthTenth == [arg |-> 20, root |-> 10]
WidthFour == [arg |-> 160000, root |-> 1]

\* Python's max(a, b) and min(a, b): the first argument unless the second
\* is greater (max), is smaller (min)
WMax(a, b) == IF WLt(a, b) THEN b ELSE a
WMin(a, b) == IF WLt(b, a) THEN b ELSE a

\* PenWidth without the clamping
PenWidthOfLog(B) == Log20(B)

\* line 115: pen_width = min(4, max(0.1, math.log(self.decimation, 20)))
PenWidth(B) == WMin(WidthFour, WMax(WidthTenth, Log20(B)))

\* default of the min_length parameter of _add_arrows: 0.01
min_length == Rat(1, 100)

\* RangeLen with a grid that keeps one point when the extent is empty
RangeLenNeverEmpty(stop, step) == IF stop <= 0 THEN 1 ELSE (stop + step - 1) \div step

\* len(range(0, stop, step))
RangeLen(stop, step) == IF stop <= 0 THEN 0 ELSE (stop + step - 1) \div step

\* MGrid with a grid point at every pixel of the usable extent
MGridEveryPixel(dim_0, dim_1, step) ==
    [shape |-> <<RangeLen(dim_0, 1), RangeLen(dim_1, 1)>>,
     at    |-> [ij \in Idx2(RangeLen(dim_0, 1), RangeLen(dim_1, 1)) |->
                    <<ij[1], ij[2]>>]]

\* np.moveaxis(np.mgrid[0:dim_0:step, 0:dim_1:step], 0, -1): at[<<i, j>>] is
\* the pair (row coordinate, column coordinate) of grid point (i, j)
MGrid(dim_0, dim_1, step) ==
    [shape |-> <<RangeLen(dim_0, step), RangeLen(dim_1, step)>>,
     at    |-> [ij \in Idx2(RangeLen(dim_0, step), RangeLen(dim_1, step)) |->
                    <<ij[1] * step, ij[2] * step>>]]

\* UsableDim rounding up: the partial tile at the edge kept
UsableDimCeil(n, B) == ((n + B - 1) \div B) * B

\* usable extent: shape // decimation * decimation
UsableDim(n, B) == (n \div B) * B

\* loc_yx after the scaling and the midpoint shift
LocYX(fx, B, s) ==
    LET dim_0  == UsableDim(fx.shape[1], B)
        dim_1  == UsableDim(fx.shape[2], B)
        grid   == MGrid(dim_0, dim_1, B)
        inv    == RDiv(RInt(1), s)
        scaled == [ij \in DOMAIN grid.at |->
                     <<RMul(RInt(grid.at[ij][1]), inv), RMul(RInt(grid.at[ij][2]), inv)>>]
        shift  == RInt(B \div 2)
    IN  [shape |-> grid.shape,
         at    |-> IF B > 1
                   THEN [ij \in DOMAIN scaled |->
                            <<RAdd(scaled[ij][1], shift), RAdd(scaled[ij][2], shift)>>]
                   ELSE scaled]

\* delta_yx: component 0 is y, component 1 is x
DeltaYX(fx, fy, B) ==
    LET raw_delta_yx == NdStack(fy, fx)
    IN  IF B > 1 THEN _decimate(raw_delta_yx, B) ELSE raw_delta_yx

\* Endpoint without the factor decimation
EndpointUnscaled(delta, B, loc) == RAdd(delta, loc)

\* vector endpoint (x2 or y2) of one tile
Endpoint(delta, B, loc) == RAdd(RMul(delta, RInt(B)), loc)

\* line_length = (delta_x ** 2 + delta_y ** 2) ** 0.5
LineLength(delta_x, delta_y) ==
    SSqrt(RAdd(RMul(delta_x, delta_x), RMul(delta_y, delta_y)))

\* ArrowHeadSize with the head half as long as the vector
ArrowHeadSizeHalf(line_length) == SDivRat(line_length, RInt(2))

ArrowHeadSize(line_length) == SDivRat(line_length, RInt(4))

\* UnitDir with 1 in place of 0 where the length is 0
UnitDirOneAtZero(delta, line_length) ==
    IF ~SIsZero(line_length) THEN RDivS(delta, line_length) ELSE SRat(RInt(1))

\* np.divide(delta, line_length, out=zeros, where=line_length != 0)
UnitDir(delta, line_length) ==
    IF ~SIsZero(line_length) THEN RDivS(delta, line_length) ELSE SRat(RZero)

\* the two wing points of a tile, each <<x, y>>
Wing1(x2, y2, u_dx, u_dy, arrow_head_size) ==
    <<RSub(RSub(x2, SToRat(SMul(u_dx, arrow_head_size))),
                    SToRat(SMul(u_dy, arrow_head_size))),
      RAdd(RSub(y2, SToRat(SMul(u_dy, arrow_head_size))),
                    SToRat(SMul(u_dx, arrow_head_size)))>>

\* Wing2 with the signs of Wing1: both wings on one side
Wing2SameSide(x2, y2, u_dx, u_dy, arrow_head_size) ==
    <<RSub(RSub(x2, SToRat(SMul(u_dx, arrow_head_size))),
                    SToRat(SMul(u_dy, arrow_head_size))),
      RAdd(RSub(y2, SToRat(SMul(u_dy, arrow_head_size))),
                    SToRat(SMul(u_dx, arrow_head_size)))>>

Wing2(x2, y2, u_dx, u_dy, arrow_head_size) ==
    <<RAdd(RSub(x2, SToRat(SMul(u_dx, arrow_head_size))),
                    SToRat(SMul(u_dy, arrow_head_size))),
      RSub(RSub(y2, SToRat(SMul(u_dy, arrow_head_size))),
                    SToRat(SMul(u_dx, arrow_head_size)))>>

\* Emits with >= in place of >
EmitsAtThreshold(line_length, minlen) == ~RLt(SSquare(line_length), RMul(minlen, minlen))

\* Emits with the comparison turned round: line_length < min_length
EmitsBelow(line_length, minlen) == RLt(SSquare(line_length), RMul(minlen, minlen))

\* the test that lets a tile into the point list
Emits(line_length, minlen) == SGtRat(line_length, minlen)

\* TilePoints with the head first in the two wing segments
TilePointsHeadFirst(x1, y1, x2, y2, p1, p2) ==
    << <<x1, y1>>, <<x2, y2>>, <<x2, y2>>, p1, <<x2, y2>>, p2 >>

\* the six points appended for one tile
TilePoints(x1, y1, x2, y2, p1, p2) ==
    << <<x1, y1>>, <<x2, y2>>, p1, <<x2, y2>>, p2, <<x2, y2>> >>

\* the points of tile (y, x), or none when the tile is skipped
GlyphAt(loc_yx, delta_yx, B, minlen, y, x) ==
    LET loc_y   == loc_yx.at[<<y, x>>][1]
        loc_x   == loc_yx.at[<<y, x>>][2]
        delta_y == NdGet(delta_yx, y, x, 0)
        delta_x == NdGet(delta_yx, y, x, 1)
        x2      == Endpoint(delta_x, B, loc_x)
        y2      == Endpoint(delta_y, B, loc_y)
        line_length     == LineLength(delta_x, delta_y)
        arrow_head_size == ArrowHeadSize(line_length)
        u_dx    == UnitDir(delta_x, line_length)
        u_dy    == UnitDir(delta_y, line_length)
        p1      == Wing1(x2, y2, u_dx, u_dy, arrow_head_size)
        p2      == Wing2(x2, y2, u_dx, u_dy, arrow_head_size)
    IN  IF Emits(line_length, minlen)
        THEN TilePoints(loc_x, loc_y, x2, y2, p1, p2)
        ELSE <<>>

\* itertools.product(range(n0), range(n1)) from position k on
RECURSIVE GlyphsFrom(_, _, _, _, _)
GlyphsFrom(loc_yx, delta_yx, B, minlen, k) ==
    LET n0 == delta_yx.shape[1]
        n1 == delta_yx.shape[2]
    IN  IF k >= n0 * n1 THEN <<>>
        ELSE GlyphAt(loc_yx, delta_yx, B, minlen, k \div n1, k % n1)
             \o GlyphsFrom(loc_yx, delta_yx, B, minlen, k + 1)

_add_arrows(fx, fy, B, s, minlen) ==
    IF fx # None /\ fy # None
    THEN GlyphsFrom(LocYX(fx, B, s), DeltaYX(fx, fy, B), B, minlen, 0)
    ELSE <<>>

\* QRectF(0, 0, int(w / scale), int(h / scale)), or the null rectangle
EmptyRect == <<0, 0, 0, 0>>
BoundingRect(fx, fy, s) ==
    IF fx # None /\ fy # None
    THEN <<0, 0, RTrunc(RDiv(RInt(fx.shape[2]), s)), RTrunc(RDiv(RInt(fx.shape[1]), s))>>
    ELSE EmptyRect

\* painter.drawLines(points): consecutive pairs of points are the segments
DrawLines(pts) == [k \in 1 .. Len(pts) \div 2 |-> <<pts[2 * k - 1], pts[2 * k]>>]

----------------------------------------------------------------------------
(* The inputs explored *)

MaxH == 4            \* field heights 1 .. MaxH
MaxW == 4            \* field widths 1 .. MaxW
MaxDecimation == 3   \* decimation factors 1 .. MaxDecimation

\* scale factors: 1, 2 and 1/2
Scales == {Rat(1, 1), Rat(2, 1), Rat(1, 2)}

\* vectors <<x, y>> a pixel may hold
Vecs == {<<RZero, RZero>>, <<RInt(3), RInt(4)>>,
         <<Rat(1, 25), RZero>>, <<RZero, Rat(-1, 100)>>}
\* vectors the rest of the field may hold
Backgrounds == {<<RZero, RZero>>, <<Rat(-1, 1), Rat(1, 2)>>}

\* component c (1: x, 2: y) of the H x W field holding v at pixel p and bg elsewhere
SeedField(H, W, p, v, bg, c) ==
    [shape |-> <<H, W>>,
     at    |-> [ij \in Idx2(H, W) |-> IF ij = p THEN v[c] ELSE bg[c]]]

----------------------------------------------------------------------------
(* The state machine: a QuiverPlot is constructed from its arguments, then *)
(* painted any number of times.                                             *)

Init ==
    /\ pc = "new"
    /\ decimation \in 1 .. MaxDecimation
    /\ scale \in Scales
    /\ \/ field_x = None /\ field_y = None
       \/ \E H \in 1 .. MaxH, W \in 1 .. MaxW :
            \E p \in Idx2(H, W), v \in Vecs, bg \in Backgrounds :
                /\ field_x = SeedField(H, W, p, v, bg, 1)
                /\ field_y = SeedField(H, W, p, v, bg, 2)
    /\ points = <<>>
    /\ rect = EmptyRect
    /\ lines = <<>>
    /\ pen = None
    /\ frame = None /\ show = None /\ self_frame = None
    /\ show_list = <<>> /\ affinity_field = <<>> /\ raised = "none"
    /\ NoRepeat /\ NoHourglass /\ NoDecimate

\* QuiverPlot.__init__, with the _add_arrows call it ends in
QuiverPlotInit ==
    /\ pc = "new"
    /\ rect' = BoundingRect(field_x, field_y, scale)
    /\ points' = _add_arrows(field_x, field_y, decimation, scale, min_length)
    /\ pc' = "built"
    /\ lines' = <<>>
    /\ pen' = PenWidth(decimation)
    /\ UNCHANGED <<field_x, field_y, decimation, scale, multi_vars>>
    /\ UNCHANGED <<repeat_vars, hourglass_vars, decimate_vars>>

\* QuiverPlot.paint
Paint ==
    /\ pc \in {"built", "painted"}
    /\ lines' = DrawLines(points)
    /\ pc' = "painted"
    /\ UNCHANGED <<field_x, field_y, decimation, scale, points, rect, pen, multi_vars>>
    /\ UNCHANGED <<repeat_vars, hourglass_vars, decimate_vars>>

Next == QuiverPlotInit \/ Paint

Spec == Init /\ [][Next]_vars

----------------------------------------------------------------------------
(* What the properties below read off a state.                              *)

\* a QuiverPlot has been constructed from a field
Built == pc = "built" /\ field_x # None /\ field_y # None

NumGlyphs == Len(points) \div 6
TailOf(g) == points[6 * (g - 1) + 1]
HeadOf(g) == points[6 * (g - 1) + 2]
\* the vector a glyph draws, per unit of decimation: (head - tail) / B
DrawnDelta(g) ==
    <<RDiv(RSub(HeadOf(g)[1], TailOf(g)[1]), RInt(decimation)),
      RDiv(RSub(HeadOf(g)[2], TailOf(g)[2]), RInt(decimation))>>

\* the tile grid the properties speak of: (H // B) x (W // B)
GridRows == field_x.shape[1] \div decimation
GridCols == field_x.shape[2] \div decimation

\* arithmetic mean of f over rows [i*B, i*B+B) and columns [j*B, j*B+B)
BlockMean(f, B, i, j) ==
    RDiv(RSum([k \in 1 .. B * B |->
                 f.at[<<i * B + ((k - 1) \div B), j * B + ((k - 1) % B)>>]]),
         RInt(B * B))

\* <<dx, dy>> of tile (i, j) as the properties define it
TileVec(i, j) ==
    <<BlockMean(field_x, decimation, i, j), BlockMean(field_y, decimation, i, j)>>

\* sqrt(dx^2 + dy^2) > m, for m >= 0
LongerThan(v, m) == RLt(RMul(m, m), RAdd(RMul(v[1], v[1]), RMul(v[2], v[2])))

\* the tiles of the grid in row-major order (row index outer)
TilesRowMajor ==
    [k \in 1 .. GridRows * GridCols |-> <<(k - 1) \div GridCols, (k - 1) % GridCols>>]

\* the tiles whose vector is longer than min_length, in row-major order
LongTiles ==
    LET long(t) == LongerThan(TileVec(t[1], t[2]), min_length)
    IN  SelectSeq(TilesRowMajor, long)

\* the tail the code gives tile (i, j): the corner scaled by 1/scale, then
\* moved by B // 2 when B > 1
AnchorOf(t) ==
    LET shift == IF decimation > 1 THEN RInt(decimation \div 2) ELSE RZero
    IN  <<RAdd(RDiv(RInt(t[2] * decimation), scale), shift),
          RAdd(RDiv(RInt(t[1] * decimation), scale), shift)>>

----------------------------------------------------------------------------
(* C1 (as stated): scale invariance.  Every coordinate of every point built *)
(* with scale s equals the coordinate built with scale 1, divided by s.     *)
C1_ScaleInvariance ==
    Built =>
        LET unit == _add_arrows(field_x, field_y, decimation, RInt(1), min_length)
        IN  points = [k \in 1 .. Len(unit) |->
                        <<RDiv(unit[k][1], scale), RDiv(unit[k][2], scale)>>]

\* the corner of tile t moved by B // 2 (when B > 1) and then scaled
C2_ClaimedTail(t) ==
    LET shift == IF decimation > 1 THEN decimation \div 2 ELSE 0
    IN  <<RDiv(RInt(t[2] * decimation + shift), scale),
          RDiv(RInt(t[1] * decimation + shift), scale)>>

(* C2 (as stated): the tail of the glyph of tile (i, j) is                   *)
(* ((j*B + B//2)/scale, (i*B + B//2)/scale) when B > 1 and (j/scale,         *)
(* i/scale) when B = 1: shift first, then scale.                             *)
C2_TailShiftThenScale ==
    Built =>
        LET long == LongTiles
        IN  /\ NumGlyphs = Len(long)
            /\ \A g \in 1 .. NumGlyphs : TailOf(g) = C2_ClaimedTail(long[g])

C4_PassThrough ==
    Built /\ decimation = 1 =>
        LET d   == DeltaYX(field_x, field_y, decimation)
            loc == LocYX(field_x, decimation, scale)
            H   == field_x.shape[1]
            W   == field_x.shape[2]
            long == LongTiles
        IN  /\ d.shape = <<H, W, 2>>
            /\ loc.shape = <<H, W>>
            /\ \A y \in 0 .. H - 1, x \in 0 .. W - 1 :
                   /\ NdGet(d, y, x, 1) = field_x.at[<<y, x>>]
                   /\ NdGet(d, y, x, 0) = field_y.at[<<y, x>>]
                   /\ loc.at[<<y, x>>] = <<RDiv(RInt(y), scale), RDiv(RInt(x), scale)>>
            /\ NumGlyphs = Len(long)
            /\ \A g \in 1 .. NumGlyphs :
                   LET y == long[g][1]
                       x == long[g][2]
                   IN  /\ TailOf(g) = <<RDiv(RInt(x), scale), RDiv(RInt(y), scale)>>
                       /\ DrawnDelta(g) = <<field_x.at[<<y, x>>], field_y.at[<<y, x>>]>>

C4_Witness ==
    /\ Built /\ decimation = 1 /\ scale = Rat(2, 1)
    /\ field_x.shape = <<2, 3>>
    /\ field_x.at[<<1, 2>>] = RInt(3) /\ field_y.at[<<1, 2>>] = RInt(4)
    /\ NumGlyphs = 6

C6_EmissionThreshold ==
    Built =>
        LET long == LongTiles
        IN  /\ NumGlyphs = Len(long)
            /\ Len(points) = 6 * NumGlyphs
            /\ \A g \in 1 .. NumGlyphs : TailOf(g) = AnchorOf(long[g])

\* two tiles of 2 x 2 pixels: the mean of one is (0.01, 0), of length exactly
\* min_length (and of length 0.02 once multiplied by B), the other is all
\* zero; neither is drawn
C6_Witness ==
    /\ Built /\ decimation = 2 /\ field_x.shape = <<2, 4>>
    /\ TileVec(0, 1) = <<Rat(1, 100), RZero>>
    /\ TileVec(0, 0) = <<RZero, RZero>>
    /\ points = <<>>

AllZero ==
    \A ij \in DOMAIN field_x.at : field_x.at[ij] = RZero /\ field_y.at[ij] = RZero

(* C7: an all-zero field yields an empty point list for every B and scale.  *)
C7_ZeroFieldNoGlyphs == Built /\ AllZero => points = <<>>

C7_Witness ==
    /\ Built /\ AllZero /\ decimation = 2 /\ scale = Rat(1, 2)
    /\ field_x.shape = <<4, 4>> /\ points = <<>>

(* C8: the head of every glyph is (dx*B + anchor_x, dy*B + anchor_y), with  *)
(* (dx, dy) the decimated vector of its tile and the anchor its tail.       *)
C8_HeadEndpoint ==
    Built =>
        LET long == LongTiles
        IN  /\ NumGlyphs = Len(long)
            /\ \A g \in 1 .. NumGlyphs :
                   LET v == TileVec(long[g][1], long[g][2])
                   IN  HeadOf(g) = <<RAdd(RMul(v[1], RInt(decimation)), TailOf(g)[1]),
                                     RAdd(RMul(v[2], RInt(decimation)), TailOf(g)[2])>>

C8_Witness ==
    /\ Built /\ decimation = 3 /\ scale = Rat(2, 1) /\ field_x.shape = <<3, 3>>
    /\ TileVec(0, 0) = <<Rat(1, 3), Rat(4, 9)>>
    /\ NumGlyphs = 1 /\ HeadOf(1) = <<RInt(2), Rat(7, 3)>>

P1Of(g) == points[6 * (g - 1) + 3]
P2Of(g) == points[6 * (g - 1) + 5]

DistSq(a, b) ==
    RAdd(RMul(RSub(a[1], b[1]), RSub(a[1], b[1])),
         RMul(RSub(a[2], b[2]), RSub(a[2], b[2])))

\* the wing points of a glyph with head x2y2 and decimated vector v
ClaimedP1(x2y2, v) ==
    <<RSub(RSub(x2y2[1], RDiv(v[1], RInt(4))), RDiv(v[2], RInt(4))),
      RAdd(RSub(x2y2[2], RDiv(v[2], RInt(4))), RDiv(v[1], RInt(4)))>>
ClaimedP2(x2y2, v) ==
    <<RAdd(RSub(x2y2[1], RDiv(v[1], RInt(4))), RDiv(v[2], RInt(4))),
      RSub(RSub(x2y2[2], RDiv(v[2], RInt(4))), RDiv(v[1], RInt(4)))>>

\* the field of the worked example: one pixel (3, 4), B = 1, scale 1
IsExample345 ==
    /\ Built /\ decimation = 1 /\ scale = RInt(1)
    /\ field_x.shape = <<1, 1>>
    /\ field_x.at[<<0, 0>>] = RInt(3) /\ field_y.at[<<0, 0>>] = RInt(4)

\* the surd s is the non-negative rational a
SIsRat(s, a) == SSquare(s) = RMul(a, a) /\ RLe(RZero, s.c) /\ RLe(RZero, a)

(* C9: the wings.  With unit direction u = (dx, dy)/L and head size h,      *)
(* p1 = (x2 - u_dx*h - u_dy*h, y2 - u_dy*h + u_dx*h) and                    *)
(* p2 = (x2 - u_dx*h + u_dy*h, y2 - u_dy*h - u_dx*h), both at the same      *)
(* distance from the head; for (dx, dy) = (3, 4) at anchor (0, 0), B = 1:   *)
(* L = 5, head (3, 4), h = 1.25, u = (0.6, 0.8), p1 = (1.25, 3.75),         *)
(* p2 = (3.25, 2.25).  Here u*h is the product (d/L)*(L/4) = d/4.           *)
C9_Wings ==
    /\ Built =>
        LET long == LongTiles
        IN  /\ NumGlyphs = Len(long)
            /\ \A g \in 1 .. NumGlyphs :
                   LET v == TileVec(long[g][1], long[g][2])
                   IN  /\ P1Of(g) = ClaimedP1(HeadOf(g), v)
                       /\ P2Of(g) = ClaimedP2(HeadOf(g), v)
                       /\ DistSq(HeadOf(g), P1Of(g)) = DistSq(HeadOf(g), P2Of(g))
    /\ IsExample345 =>
        LET L == LineLength(RInt(3), RInt(4))
        IN  /\ SIsRat(L, RInt(5))
            /\ SIsRat(ArrowHeadSize(L), Rat(5, 4))
            /\ SIsRat(UnitDir(RInt(3), L), Rat(3, 5))
            /\ SIsRat(UnitDir(RInt(4), L), Rat(4, 5))
            /\ points = << <<RInt(0), RInt(0)>>, <<RInt(3), RInt(4)>>,
                           <<Rat(5, 4), Rat(15, 4)>>, <<RInt(3), RInt(4)>>,
                           <<Rat(13, 4), Rat(9, 4)>>, <<RInt(3), RInt(4)>> >>

C9_Witness ==
    /\ IsExample345
    /\ NumGlyphs = 1
    /\ P1Of(1) = <<Rat(5, 4), Rat(15, 4)>> /\ P2Of(1) = <<Rat(13, 4), Rat(9, 4)>>

Painted == pc = "painted" /\ field_x # None /\ field_y # None

\* the head the code gives the glyph of tile t
HeadAt(t) ==
    LET v == TileVec(t[1], t[2])
    IN  <<RAdd(RMul(v[1], RInt(decimation)), AnchorOf(t)[1]),
          RAdd(RMul(v[2], RInt(decimation)), AnchorOf(t)[2])>>

(* C10 (as stated): every glyph is six consecutive points, three segments   *)
(* tail->head, head->p1, head->p2 in this point order; the point list is 6  *)
(* times the number of glyphs long and the glyphs come in row-major tile    *)
(* order.                                                                    *)
C10_SegmentsHeadFirst ==
    Painted =>
      LET long == LongTiles IN
        /\ Len(points) = 6 * Len(long)
        /\ Len(lines) = 3 * Len(long)
        /\ \A g \in 1 .. Len(long) :
               LET t  == long[g]
                   v  == TileVec(t[1], t[2])
                   hd == HeadAt(t)
               IN  /\ lines[3 * g - 2] = <<AnchorOf(t), hd>>
                   /\ lines[3 * g - 1] = <<hd, ClaimedP1(hd, v)>>
                   /\ lines[3 * g]     = <<hd, ClaimedP2(hd, v)>>

(* C10 (amended): every glyph is six consecutive points, three segments     *)
(* tail->head, p1->head, p2->head in this point order (the wing segments    *)
(* end, not start, at the head); the point list is 6 times the number of    *)
(* glyphs long and the glyphs come in row-major tile order.                 *)
C10_SegmentLayout ==
    Painted =>
      LET long == LongTiles IN
        /\ Len(points) = 6 * Len(long)
        /\ Len(lines) = 3 * Len(long)
        /\ \A k \in 1 .. Len(lines) : lines[k] = <<points[2 * k - 1], points[2 * k]>>
        /\ \A g \in 1 .. Len(long) :
               LET t  == long[g]
                   v  == TileVec(t[1], t[2])
                   hd == HeadAt(t)
               IN  /\ lines[3 * g - 2] = <<AnchorOf(t), hd>>
                   /\ lines[3 * g - 1] = <<ClaimedP1(hd, v), hd>>
                   /\ lines[3 * g]     = <<ClaimedP2(hd, v), hd>>

\* a painted 2 x 3 grid of tiles, all drawn: 6 glyphs, 18 segments
C10_Witness ==
    /\ Painted /\ decimation = 1 /\ field_x.shape = <<2, 3>>
    /\ Len(LongTiles) = 6 /\ Len(lines) = 18
    /\ lines[4][1] = AnchorOf(<<0, 1>>) /\ lines[10][1] = AnchorOf(<<1, 0>>)

----------------------------------------------------------------------------
(* MultiQuiverPlot: one QuiverPlot per shown channel of a frame.            *)
(* A frame is [shape |-> <<H, W, T>>, at |-> [<<i, j, c>> |-> value]]; the  *)
(* constructor's outcome is the exception it raised, or "none".             *)

\* the values a frame holds
FrameValues(F) == {F.at[ijc] : ijc \in DOMAIN F.at}

\* np.ptp(frame): max - min over every element; numpy raises ValueError on
\* an array without elements
PtpRaises(F) == DOMAIN F.at = {}
Ptp(F) ==
    LET vals == FrameValues(F)
        hi == CHOOSE v \in vals : \A w \in vals : RLe(w, v)
        lo == CHOOSE v \in vals : \A w \in vals : RLe(v, w)
    IN  RSub(hi, lo)

\* the test of line 55, at its threshold
NeedsRescaleFromFour(ptp) == RLe(RInt(4), ptp)
NeedsRescale(ptp) == RLt(RInt(4), ptp)

\* Rescaled with the frame's largest value as the divisor
RescaledByPeak(F) ==
    LET vals == FrameValues(F)
        hi == CHOOSE v \in vals : \A w \in vals : RLe(w, v)
    IN  [shape |-> F.shape, at |-> [ijc \in DOMAIN F.at |-> RDiv(F.at[ijc], hi)]]

\* frame.astype(np.float64) / 255
Rescaled(F) == [shape |-> F.shape, at |-> [ijc \in DOMAIN F.at |-> RDiv(F.at[ijc], RInt(255))]]

\* The arrays of a call, heap = [caller, own, ref]: the array the caller
\* passed as frame, the array the plot made for itself (None until it makes
\* one), and which of the two self.frame names.
\* line 49: self.frame = frame
NewCall(F) == [caller |-> F, own |-> None, ref |-> "caller"]
SelfFrame(heap) == IF heap.ref = "own" THEN heap.own ELSE heap.caller

\* AstypeDivide dividing in place: self.frame /= 255
DivideInPlace(heap) == [heap EXCEPT !.caller = Rescaled(heap.caller)]

\* line 56: self.frame = self.frame.astype(np.float64) / 255, a new array
AstypeDivide(heap) == [heap EXCEPT !.own = Rescaled(SelfFrame(heap)), !.ref = "own"]

\* lines 54-56: the frame the plot keeps
NormalizedFrame(heap) ==
    IF NeedsRescale(Ptp(SelfFrame(heap))) THEN AstypeDivide(heap) ELSE heap

\* range(n) as a list
Range(n) == [k \in 1 .. n |-> k - 1]

\* lines 58-61: the channels to show
ShowListOf(F, sh) == IF sh = None THEN Range(F.shape[3] \div 2) ELSE sh.list

\* numpy's check of an index into an axis of length n, and the element it names
IndexInBounds(idx, n) == -n <= idx /\ idx < n
WrapIndex(idx, n) == IF idx < 0 THEN idx + n ELSE idx

\* frame[..., idx]
LastAxis(F, idx) ==
    LET c == WrapIndex(idx, F.shape[3])
    IN  [shape |-> <<F.shape[1], F.shape[2]>>,
         at    |-> [ij \in Idx2(F.shape[1], F.shape[2]) |-> F.at[<<ij[1], ij[2], c>>]]]

\* the palette of sleap.gui.overlays.base, its entries named by position
h5_colors == <<"h5_colors[0]", "h5_colors[1]">>

\* line 64, with the index taken from the component instead of the channel
ColorMapOfComponent(channel) == h5_colors[((channel * 2) % Len(h5_colors)) + 1]
\* line 64: h5_colors[channel % len(h5_colors)]
ColorMap(channel) == h5_colors[(channel % Len(h5_colors)) + 1]

\* math.log(decimation, 20) of line 115 raises ValueError outside its domain
LogRaises(B) == B <= 0

\* QuiverPlot(field_x, field_y, color, decimation, scale): the exception its
\* constructor raises, or the item
NewQuiverPlot(fx, fy, color, B, s) ==
    IF LogRaises(B) THEN [raised |-> "ValueError"]
    ELSE IF s = RZero THEN [raised |-> "ZeroDivisionError"]
    ELSE [raised |-> "none",
          item   |-> [field_x |-> fx, field_y |-> fy, color |-> color,
                      decimation |-> B, scale |-> s, pen_width |-> PenWidth(B),
                      rect   |-> BoundingRect(fx, fy, s),
                      points |-> _add_arrows(fx, fy, B, s, min_length)]]

\* lines 62-73: the loop over show_list from position n on, items so far in acc
RECURSIVE ShowChannels(_, _, _, _, _, _)
ShowChannels(F, list, B, s, n, acc) ==
    IF n > Len(list) THEN [raised |-> "none", affinity_field |-> acc]
    ELSE LET channel == list[n]
             T == F.shape[3]
         IN  IF channel < T \div 2
             THEN IF ~ IndexInBounds(channel * 2, T) \/ ~ IndexInBounds(channel * 2 + 1, T)
                  THEN [raised |-> "IndexError", affinity_field |-> acc]
                  ELSE LET q == NewQuiverPlot(LastAxis(F, channel * 2),
                                              LastAxis(F, channel * 2 + 1),
                                              ColorMap(channel), B, s)
                       IN  IF q.raised # "none"
                           THEN [raised |-> q.raised, affinity_field |-> acc]
                           ELSE ShowChannels(F, list, B, s, n + 1, Append(acc, q.item))
             ELSE ShowChannels(F, list, B, s, n + 1, acc)

\* MultiQuiverPlot.__init__
MultiQuiverPlotNew(F, sh, B, s) ==
    IF PtpRaises(F)
    THEN [raised |-> "ValueError", caller |-> F, frame |-> F,
          show_list |-> <<>>, affinity_field |-> <<>>]
    ELSE LET heap == NormalizedFrame(NewCall(F))
             nf   == SelfFrame(heap)
             list == ShowListOf(nf, sh)
             r    == ShowChannels(nf, list, B, s, 1, <<>>)
         IN  [raised |-> r.raised, caller |-> heap.caller, frame |-> nf,
              show_list |-> list, affinity_field |-> r.affinity_field]

MaxT == 6          \* frames have 0 .. MaxT components per pixel
MaxShow == 2       \* explicit show lists have 0 .. MaxShow entries

\* the frames: H x W pixels of T components
FrameShapes == {<<1, 1>>, <<2, 2>>}
FrameKinds == {"zero", "unit", "edge", "over", "byte"}
\* "zero": nothing but 0;  "unit": values within [-1, 1], one per component;
\* "edge": -2 in one element and 2 elsewhere;  "over": -2.04 and 2.04;
\* "byte": multiples of 51 up to 51 * T, less 255 on every other pixel
FrameElem(kind, i, j, c) ==
    CASE kind = "zero" -> RZero
      [] kind = "unit" -> Rat((c + 1) * (IF (i + j) % 2 = 0 THEN 1 ELSE -1), 8)
      [] kind = "edge" -> IF <<i, j, c>> = <<0, 0, 0>> THEN RInt(-2) ELSE RInt(2)
      [] kind = "over" -> IF <<i, j, c>> = <<0, 0, 0>> THEN Rat(-51, 25) ELSE Rat(51, 25)
      [] kind = "byte" -> RInt(51 * (c + 1) - 255 * ((i + j) % 2))
FrameOf(H, W, T, kind) ==
    [shape |-> <<H, W, T>>,
     at    |-> [ijc \in Idx3(H, W, T) |-> FrameElem(kind, ijc[1], ijc[2], ijc[3])]]

\* the channels a caller may ask for, the decimations and the scales
ShowIndices == {-4, -1, 0, 1, 2}
ShowLists == UNION {[1 .. n -> ShowIndices] : n \in 0 .. MaxShow}
Decimations == -1 .. 2
MultiScales == {Rat(-1, 1), RZero, Rat(1, 1)}

InitMulti ==
    /\ pc = "new"
    /\ \E sh \in FrameShapes, T \in 0 .. MaxT, kind \in FrameKinds :
            frame = FrameOf(sh[1], sh[2], T, kind)
    /\ show \in {None} \cup {[list |-> l] : l \in ShowLists}
    /\ decimation \in Decimations
    /\ scale \in MultiScales
    /\ self_frame = None /\ show_list = <<>> /\ affinity_field = <<>>
    /\ raised = "none"
    /\ field_x = None /\ field_y = None
    /\ points = <<>> /\ rect = EmptyRect /\ lines = <<>> /\ pen = None
    /\ NoRepeat /\ NoHourglass /\ NoDecimate

\* the constructor call MultiQuiverPlot(frame, show, decimation, scale)
MultiQuiverPlotInit ==
    /\ pc = "new"
    /\ frame # None
    /\ \E r \in {MultiQuiverPlotNew(frame, show, decimation, scale)} :
           /\ raised' = r.raised
           /\ frame' = r.caller
           /\ self_frame' = r.frame
           /\ show_list' = r.show_list
           /\ affinity_field' = r.affinity_field
    /\ pc' = "built"
    /\ UNCHANGED <<show, decimation, scale, field_x, field_y, points, rect, lines, pen>>
    /\ UNCHANGED <<repeat_vars, hourglass_vars, decimate_vars>>

NextMulti == MultiQuiverPlotInit

SpecMulti == InitMulti /\ [][NextMulti]_vars

----------------------------------------------------------------------------
(* What the properties of MultiQuiverPlot read off a state.                 *)

\* the constructor of a MultiQuiverPlot has run on a frame
MultiBuilt == pc = "built" /\ frame # None

\* the frame's value range exceeds 4: two of its elements are more than 4 apart
RangeExceedsFour ==
    \E ijc \in DOMAIN frame.at, klc \in DOMAIN frame.at :
        RLt(RInt(4), RSub(frame.at[ijc], frame.at[klc]))

ValidParams == decimation >= 1 /\ RLt(RZero, scale)

\* the number of components per pixel, and of channels (pairs of components)
NumComponents == frame.shape[3]
NumChannels == NumComponents \div 2

\* the selection asked for: the show list, or every channel in increasing order
Selection == IF show = None THEN [n \in 1 .. NumChannels |-> n - 1] ELSE show.list

\* f is frame[..., c] of the frame the plot keeps
IsComponent(f, c) ==
    /\ -NumComponents <= c /\ c < NumComponents
    /\ f.shape = <<frame.shape[1], frame.shape[2]>>
    /\ \A ij \in Idx2(frame.shape[1], frame.shape[2]) :
          f.at[ij] = self_frame.at[<<ij[1], ij[2], c % NumComponents>>]

\* C12: for a frame with last dimension T, every selected index k with
\* 2k + 1 < T yields a vector field whose x component is frame[..., 2k] and
\* whose y component is frame[..., 2k + 1]; when no selection is given the
\* selection is every index in [0, T // 2) in increasing order.
C12_ChannelExtraction ==
    MultiBuilt /\ ValidParams /\ NumComponents >= 1 =>
        /\ show_list = Selection
        /\ \A n \in 1 .. Len(Selection) :
              2 * Selection[n] + 1 < NumComponents =>
                  \E m \in 1 .. Len(affinity_field) :
                      /\ IsComponent(affinity_field[m].field_x, 2 * Selection[n])
                      /\ IsComponent(affinity_field[m].field_y, 2 * Selection[n] + 1)

\* the same for the selected indices that are channels of the frame: each k in
\* [0, T // 2) is shown with components 2k and 2k + 1
ChannelExtractionInRange ==
    MultiBuilt /\ raised = "none" =>
        /\ show_list = Selection
        /\ \A n \in 1 .. Len(Selection) :
              0 <= Selection[n] /\ Selection[n] < NumChannels =>
                  \E m \in 1 .. Len(affinity_field) :
                      /\ IsComponent(affinity_field[m].field_x, 2 * Selection[n])
                      /\ IsComponent(affinity_field[m].field_y, 2 * Selection[n] + 1)

\* k is a channel of the frame, and the selected indices that are, in order
IsChannel(k) == 0 <= k /\ k < NumChannels
ValidSelection == SelectSeq(Selection, IsChannel)

\* item is the glyph group of channel k: built from components 2k and 2k + 1
ShowsChannel(item, k) ==
    /\ IsComponent(item.field_x, 2 * k)
    /\ IsComponent(item.field_y, 2 * k + 1)

\* C13: for a frame with C channels, every selected index outside [0, C)
\* (k >= C, and also k < 0) produces no glyph group and never raises; the
\* groups of the in-range indices of the same selection are still produced.
C13_OutOfRangeSkipped ==
    MultiBuilt /\ ValidParams /\ NumComponents >= 1 =>
        /\ raised = "none"
        /\ Len(affinity_field) = Len(ValidSelection)
        /\ \A n \in 1 .. Len(ValidSelection) :
              n <= Len(affinity_field) /\ ShowsChannel(affinity_field[n], ValidSelection[n])

\* the part of it that the code keeps: an index k >= C is skipped silently
SkipsIndicesFromC ==
    MultiBuilt /\ ValidParams /\ NumComponents >= 1
        /\ (\A n \in 1 .. Len(Selection) : Selection[n] >= 0) =>
        /\ raised = "none"
        /\ Len(affinity_field) = Len(ValidSelection)
        /\ \A n \in 1 .. Len(ValidSelection) :
              n <= Len(affinity_field) /\ ShowsChannel(affinity_field[n], ValidSelection[n])

\* the color the claims give channel k: the palette entry k mod palette size
PaletteColor(k) == h5_colors[(k % Len(h5_colors)) + 1]

\* C14: the returned list is exactly the sub-sequence of the selection made of
\* its valid channel indices, in selection order, each group with the color of
\* its channel (selection [2, 0] gives the group of channel 2, then the group
\* of channel 0); a repeated index yields one group per occurrence.
C14_SelectionOrder ==
    MultiBuilt /\ ValidParams /\ raised = "none" =>
        /\ Len(affinity_field) = Len(ValidSelection)
        /\ \A n \in 1 .. Len(ValidSelection) :
              /\ n <= Len(affinity_field)
              /\ ShowsChannel(affinity_field[n], ValidSelection[n])
              /\ affinity_field[n].color = PaletteColor(ValidSelection[n])

\* the order and the repetitions of a selection without negative indices are
\* kept: [2, 1] gives channel 2 then channel 1, [1, 1] gives channel 1 twice
OrderKeptFromZero ==
    MultiBuilt /\ ValidParams /\ raised = "none"
        /\ (\A n \in 1 .. Len(Selection) : Selection[n] >= 0) =>
        /\ Len(affinity_field) = Len(ValidSelection)
        /\ \A n \in 1 .. Len(ValidSelection) :
              /\ n <= Len(affinity_field)
              /\ ShowsChannel(affinity_field[n], ValidSelection[n])
              /\ affinity_field[n].color = PaletteColor(ValidSelection[n])

\* the selected indices for which a group is made, in order
PassesGuard(k) == k < NumChannels
ShownSelection == SelectSeq(show_list, PassesGuard)

\* C15: the color of the glyph group made for selected channel index k is
\* palette[k mod palette_size]; it depends on k alone, not on the position of
\* k in the selection nor on the other channels selected.
C15_ColorOfChannel ==
    MultiBuilt =>
        /\ Len(affinity_field) <= Len(ShownSelection)
        /\ raised = "none" => Len(affinity_field) = Len(ShownSelection)
        /\ \A n \in 1 .. Len(affinity_field) :
              affinity_field[n].color = PaletteColor(ShownSelection[n])

\* channels 1 and 2 are shown, in this order: the second group has an index
\* beyond the palette and takes the palette's first color
C15_Witness ==
    /\ MultiBuilt /\ raised = "none"
    /\ show # None /\ show.list = <<1, 2>>
    /\ Len(affinity_field) = 2
    /\ affinity_field[1].color = h5_colors[2]
    /\ affinity_field[2].color = h5_colors[1]
    /\ Len(h5_colors) = 2

\* C16: an empty selection returns an empty list of glyph groups without
\* error; a frame whose last dimension is smaller than 2 returns an empty list
\* without error, whether the selection is explicit or defaulted.
C16_EmptySelectionOrFrame ==
    MultiBuilt /\ ValidParams
        /\ ((show # None /\ show.list = <<>>) \/ NumComponents < 2) =>
        raised = "none" /\ affinity_field = <<>>

\* the part of it that the code keeps: a frame that has elements and either an
\* empty selection or a single component, no negative index selected
EmptyListWhenNothingToShow ==
    MultiBuilt /\ ValidParams /\ NumComponents >= 1
        /\ ((show # None /\ show.list = <<>>) \/ NumComponents < 2)
        /\ (\A n \in 1 .. Len(Selection) : Selection[n] >= 0) =>
        raised = "none" /\ affinity_field = <<>>

\* C17: a decimation factor B <= 0 is rejected with an error for every render
\* request, before any processing (it is never clamped to a valid value); this
\* holds also when the selection is empty or contains no valid channel.
C17_DecimationRejected ==
    MultiBuilt /\ decimation <= 0 /\ RLt(RZero, scale) =>
        /\ raised # "none"
        /\ self_frame = frame
        /\ affinity_field = <<>>

\* the part of it that the code keeps: the first group to be built fails on
\* the logarithm of a non-positive decimation, and no group is returned
DecimationFailsFirstGroup ==
    MultiBuilt /\ decimation <= 0 /\ NumComponents >= 1 =>
        /\ affinity_field = <<>>
        /\ ShownSelection # <<>> => raised \in {"ValueError", "IndexError"}
        /\ ShownSelection = <<>> => raised = "none"

\* C18: a scale factor <= 0 (zero or negative) is rejected with an error
\* before any processing; no glyph group is ever produced with a non-positive
\* scale.
C18_ScaleRejected ==
    MultiBuilt /\ RLe(scale, RZero) /\ decimation >= 1 =>
        /\ raised # "none"
        /\ self_frame = frame
        /\ affinity_field = <<>>

\* the part of it that the code keeps: with scale 0 the first group to be
\* built fails on the division of the field's height by the scale
ZeroScaleFailsFirstGroup ==
    MultiBuilt /\ scale = RZero /\ decimation >= 1 /\ NumComponents >= 1 =>
        /\ affinity_field = <<>>
        /\ ShownSelection # <<>> => raised \in {"ZeroDivisionError", "IndexError"}
        /\ ShownSelection = <<>> => raised = "none"

\* C19: a frame whose channel dimension is odd, or whose per-channel fields
\* are not of rank 2 (the frame not of rank 3), raises an error instead of
\* returning glyph groups.
C19_ShapeRejected ==
    MultiBuilt /\ ValidParams
        /\ (NumComponents % 2 = 1 \/ Len(frame.shape) # 3) =>
        raised # "none" /\ affinity_field = <<>>

\* what the code does with an odd channel dimension T: the last component is
\* left out and the T // 2 channels before it are shown as usual
OddFrameShown ==
    MultiBuilt /\ ValidParams /\ NumComponents % 2 = 1 /\ show = None =>
        /\ raised = "none"
        /\ Len(affinity_field) = (NumComponents - 1) \div 2
        /\ \A n \in 1 .. Len(affinity_field) : ShowsChannel(affinity_field[n], n - 1)

----------------------------------------------------------------------------
(* Further properties of one QuiverPlot.                                    *)

\* the tiles of the grid
Tiles == {TilesRowMajor[k] : k \in 1 .. Len(TilesRowMajor)}

\* C25: the unit direction is guarded: (u_dx, u_dy) = (dx/L, dy/L) when
\* L # 0 and (0, 0) when L = 0; for every tile, the zero-length ones that are
\* filtered later included, the wings are computed without a division by
\* zero, and both wing points of a zero-length tile are its head point.
C25_GuardedUnitDirection ==
    Built =>
        \A t \in Tiles :
            LET v    == TileVec(t[1], t[2])
                L    == LineLength(v[1], v[2])
                h    == ArrowHeadSize(L)
                u_dx == UnitDir(v[1], L)
                u_dy == UnitDir(v[2], L)
                head == HeadAt(t)
            IN  IF v = <<RZero, RZero>>
                THEN /\ SIsZero(L)
                     /\ u_dx = SRat(RZero) /\ u_dy = SRat(RZero)
                     /\ head = AnchorOf(t)
                     /\ Wing1(head[1], head[2], u_dx, u_dy, h) = head
                     /\ Wing2(head[1], head[2], u_dx, u_dy, h) = head
                ELSE /\ ~ SIsZero(L)
                     /\ SMul(u_dx, L) = SRat(v[1])
                     /\ SMul(u_dy, L) = SRat(v[2])
                     /\ RAdd(RMul(u_dx.c, RMul(u_dx.c, u_dx.r)),
                             RMul(u_dy.c, RMul(u_dy.c, u_dy.r))) = RInt(1)

\* a grid of 2 x 2 blocks with a tile of zero vectors next to a tile that is
\* drawn
C25_Witness ==
    /\ Built /\ decimation = 2
    /\ \E t \in Tiles : TileVec(t[1], t[2]) = <<RZero, RZero>>
    /\ NumGlyphs >= 1

\* C26: the arrowhead size is L/4, L the length of the decimated vector
\* before it is multiplied by B: for every glyph drawn, each wing point lies
\* at (L/4) * sqrt(2) from the head whatever B is, the shaft |head - tail| is
\* L * B long, and head size to shaft length is 1 / (4 * B).
C26_HeadSize ==
    Built =>
        LET long == LongTiles
        IN  /\ NumGlyphs = Len(long)
            /\ \A g \in 1 .. NumGlyphs :
                  LET v   == TileVec(long[g][1], long[g][2])
                      Lsq == RAdd(RMul(v[1], v[1]), RMul(v[2], v[2]))
                      hsq == SSquare(ArrowHeadSize(LineLength(v[1], v[2])))
                      shaftsq == DistSq(HeadOf(g), TailOf(g))
                  IN  /\ hsq = RDiv(Lsq, RInt(16))
                      /\ DistSq(HeadOf(g), P1Of(g)) = RMul(RInt(2), hsq)
                      /\ DistSq(HeadOf(g), P2Of(g)) = RMul(RInt(2), hsq)
                      /\ shaftsq = RMul(Lsq, RInt(decimation * decimation))
                      /\ RMul(hsq, RInt(16 * decimation * decimation)) = shaftsq

\* a 3 x 3 block mean of length 5/9 is drawn with B = 3: the shaft is 5/3
\* long and the head size 5/36
C26_Witness ==
    /\ Built /\ decimation = 3 /\ NumGlyphs = 1
    /\ DistSq(HeadOf(1), TailOf(1)) = Rat(25, 9)
    /\ DistSq(HeadOf(1), P1Of(1)) = Rat(25, 648)

-----------------------------------------------------------------------------
(* The pen of a QuiverPlot over a wide range of decimation factors *)

MaxPenB == 60        \* decimation factors 1 .. MaxPenB, and those around 20 ^ 4

PenDecimations == (1 .. MaxPenB) \cup {159999, 160000, 160001, 200000}

InitPen ==
    /\ pc = "new"
    /\ decimation \in PenDecimations
    /\ scale = Rat(1, 1)
    /\ \/ field_x = None /\ field_y = None
       \/ \E v \in Vecs :
            /\ field_x = SeedField(2, 2, <<0, 0>>, v, <<RZero, RZero>>, 1)
            /\ field_y = SeedField(2, 2, <<0, 0>>, v, <<RZero, RZero>>, 2)
    /\ points = <<>>
    /\ rect = EmptyRect
    /\ lines = <<>>
    /\ pen = None
    /\ frame = None /\ show = None /\ self_frame = None
    /\ show_list = <<>> /\ affinity_field = <<>> /\ raised = "none"
    /\ NoRepeat /\ NoHourglass /\ NoDecimate

SpecPen == InitPen /\ [][Next]_vars

\* C22: the pen width is log_20(B) clamped to [0.1, 4]: 0.1 for B = 1 (the
\* only B >= 1 whose logarithm is below 0.1), 4 for B > 160000, log_20(B)
\* otherwise; it lies in [0.1, 4] and no smaller B has a greater width.
C22_PenWidthClamped ==
    (pen # None) =>
        /\ (decimation = 1) => pen = WidthTenth
        /\ (decimation > 160000) => pen = WidthFour
        /\ (decimation > 1 /\ decimation <= 160000) => pen = Log20(decimation)
        /\ ~WLt(pen, WidthTenth)
        /\ ~WLt(WidthFour, pen)
        /\ \A b \in PenDecimations :
               (b <= decimation) => ~WLt(pen, PenWidth(b))

\* a plot built with B above 20 ^ 4, its pen 4 wide
C22_Witness ==
    /\ pc = "built"
    /\ decimation > 160000
    /\ pen = WidthFour
    /\ WLt(Log20(decimation), Log20(200000)) /\ WLt(WidthFour, Log20(decimation))

\* a plot built with B = 1, its pen 0.1 wide, above log_20(1)
PenClampedBelow ==
    pc = "built" /\ decimation = 1 /\ pen = WidthTenth /\ WLt(Log20(1), pen)

-----------------------------------------------------------------------------
(* hourglass_block.  A tensor is its shape <<height, width, channels>> (the *)
(* batch axis plays no part); a call is followed through the layers it      *)
(* builds: hg = [raised, layers, x, blocks_down], where layers lists the    *)
(* layer calls made so far and x is the shape of the current tensor.        *)

RECURSIVE Pow2(_)
Pow2(d) == IF d = 0 THEN 1 ELSE 2 * Pow2(d - 1)

HgStart(shape) == [raised |-> "none", layers |-> <<>>, x |-> shape, blocks_down |-> <<>>]
HgRaise(hg, exc) == IF hg.raised # "none" THEN hg ELSE [hg EXCEPT !.raised = exc]

\* a layer call giving a tensor of shape out; not reached after an exception
HgLayer(hg, op, out) ==
    IF hg.raised # "none" THEN hg
    ELSE [hg EXCEPT !.layers = Append(@, op), !.x = out]

\* residual_block(x, num_filters, batch_norm): same height and width,
\* num_filters channels
residual_block(hg, nf) == HgLayer(hg, "residual_block", <<hg.x[1], hg.x[2], nf>>)

\* conv1(n)(x): a 1x1 convolution to n channels
conv1(hg, n) == HgLayer(hg, "conv1", <<hg.x[1], hg.x[2], n>>)

\* MaxPool2D(pool_size=(2, 2), strides=(2, 2))(x): rejects a side below 2
MaxPool2D(hg) ==
    IF hg.raised = "none" /\ (hg.x[1] < 2 \/ hg.x[2] < 2)
    THEN HgRaise(hg, "ValueError")
    ELSE HgLayer(hg, "MaxPool2D", <<hg.x[1] \div 2, hg.x[2] \div 2, hg.x[3]>>)

\* UpSampling2D(size=(2,2), interpolation=interp)(x)
UpSampling2D(hg) == HgLayer(hg, "UpSampling2D", <<2 * hg.x[1], 2 * hg.x[2], hg.x[3]>>)

\* BatchNormalization()(x)
BatchNormalization(hg) == HgLayer(hg, "BatchNormalization", hg.x)

\* Add()([other, x]): rejects inputs of different shapes
Add(hg, other) ==
    IF hg.raised = "none" /\ other # hg.x
    THEN HgRaise(hg, "ValueError")
    ELSE HgLayer(hg, "Add", hg.x)

\* lines 52-55: the i-th of the depth steps down
RECURSIVE HgDown(_, _, _)
HgDown(hg, nf, n) ==
    IF n = 0 THEN hg
    ELSE LET r == residual_block(hg, nf)
             b == [r EXCEPT !.blocks_down = Append(@, r.x)]
         IN  HgDown(MaxPool2D(IF r.raised = "none" THEN b ELSE r), nf, n - 1)

\* lines 60-64
HgMiddle(hg, nf) ==
    LET x_identity == residual_block(hg, nf)
        x == residual_block(residual_block(residual_block(x_identity, nf), nf), nf)
    IN  Add(x, x_identity.x)

\* lines 67-74: the steps up, over blocks_down[::-1] from its k-th entry down
RECURSIVE HgUp(_, _, _)
HgUp(hg, nf, k) ==
    IF k = 0 \/ hg.raised # "none" THEN hg
    ELSE LET x_down == hg.blocks_down[k]
             \* line 68 builds a block on x_down; x is not replaced
             side == [residual_block([hg EXCEPT !.x = x_down], nf) EXCEPT !.x = hg.x]
             up == UpSampling2D(side)
         IN  HgUp(residual_block(Add(up, <<x_down[1], x_down[2], nf>>), nf), nf, k - 1)

\* lines 77-84
HgHead(hg, shape, noc, nf) ==
    LET x0 == BatchNormalization(conv1(hg, nf))
        x_out == conv1(x0, noc)
        x1 == conv1([x_out EXCEPT !.x = x0.x], nf)
        x_ == conv1([x1 EXCEPT !.x = x_out.x], nf)
        sum == IF x_.raised = "none" /\ (x_.x # shape \/ x1.x # shape)
               THEN HgRaise(x_, "ValueError")
               ELSE HgLayer(x_, "Add", shape)
    IN  [raised |-> sum.raised, layers |-> sum.layers, x |-> sum.x, x_out |-> x_out.x]

\* hourglass_block(x_in, num_output_channels, num_filters, depth), with
\* batch_norm and upsampling_layers left at True
hourglass_block(shape, noc, nf, d) ==
    IF shape[3] # nf
    THEN [raised |-> "ValueError", layers |-> <<>>, x |-> shape, x_out |-> None]
    ELSE IF shape[2] % Pow2(d) # 0 \/ shape[2] % Pow2(d) # 0
    THEN [raised |-> "ValueError", layers |-> <<>>, x |-> shape, x_out |-> None]
    ELSE LET down == residual_block(HgDown(HgStart(shape), nf, d), nf)
             up == HgUp(HgMiddle(down, nf), nf, d)
         IN  IF up.raised # "none"
             THEN [raised |-> up.raised, layers |-> up.layers, x |-> up.x, x_out |-> None]
             ELSE HgHead(up, shape, noc, nf)

MaxSide == 8       \* heights and widths 1 .. MaxSide
MaxDepth == 2      \* depths 0 .. MaxDepth
Filters == {2, 4}  \* channel counts of the input, and values of num_filters
OutputChannels == {1, 3}

InitHourglass ==
    /\ pc = "new"
    /\ x_in \in (1 .. MaxSide) \X (1 .. MaxSide) \X Filters
    /\ num_filters \in Filters
    /\ hg_depth \in 0 .. MaxDepth
    /\ hg_out = None
    /\ decimation = None /\ scale = None /\ field_x = None /\ field_y = None
    /\ points = <<>> /\ rect = EmptyRect /\ lines = <<>> /\ pen = None
    /\ frame = None /\ show = None /\ self_frame = None
    /\ show_list = <<>> /\ affinity_field = <<>> /\ raised = "none"
    /\ NoRepeat /\ NoDecimate

HourglassBlock ==
    /\ pc = "new"
    /\ hg_out = None
    /\ \E noc \in OutputChannels :
           hg_out' = hourglass_block(x_in, noc, num_filters, hg_depth)
    /\ pc' = "built"
    /\ UNCHANGED <<x_in, num_filters, hg_depth>>
    /\ UNCHANGED <<field_x, field_y, decimation, scale, points, rect, lines, pen>>
    /\ UNCHANGED <<multi_vars, repeat_vars, decimate_vars>>

NextHourglass == HourglassBlock

SpecHourglass == InitHourglass /\ [][NextHourglass]_vars

HgBadHeight == x_in[1] % Pow2(hg_depth) # 0
HgBadWidth == x_in[2] % Pow2(hg_depth) # 0
HgBadChannels == x_in[3] # num_filters

\* C24: a call of hourglass_block on an input whose height or width is not
\* divisible by 2^depth, or whose channel count differs from num_filters,
\* raises ValueError, and has built no layer.
C24_RejectsBeforeBuilding ==
    (hg_out # None /\ (HgBadHeight \/ HgBadWidth \/ HgBadChannels)) =>
        /\ hg_out.raised = "ValueError"
        /\ hg_out.layers = <<>>

\* the width and channel parts of C24: those inputs are rejected by the
\* checks of lines 42-47, before any layer call
WidthAndChannelsChecked ==
    (hg_out # None /\ (HgBadWidth \/ HgBadChannels)) =>
        /\ hg_out.raised = "ValueError"
        /\ hg_out.layers = <<>>

\* an input with only its height indivisible passes the checks: layers are
\* built until a skip connection finds two different shapes
HeightFailsLate ==
    (hg_out # None /\ HgBadHeight /\ ~HgBadWidth /\ ~HgBadChannels) =>
        /\ hg_out.raised = "ValueError"
        /\ hg_out.layers # <<>>
        /\ hg_out.layers[1] = "residual_block"

\* an input that meets all three conditions gives both outputs, the second
\* of the input's height and width
HourglassBuilt ==
    (hg_out # None /\ ~HgBadHeight /\ ~HgBadWidth /\ ~HgBadChannels) =>
        /\ hg_out.raised = "none"
        /\ hg_out.x = x_in
        /\ hg_out.x_out[1] = x_in[1] /\ hg_out.x_out[2] = x_in[2]
        /\ Len(hg_out.layers) = 12 + 6 * hg_depth

-----------------------------------------------------------------------------
(* _decimate on images of either memory layout *)

\* an array of the given shape holding elem[<<i, j, c>>], stored column-major
\* over its first two axes: what np.stack(..., axis=-1) makes of two
\* Fortran-ordered fields (element strides depth, depth * n0, 1)
NdNewF(n0, n1, depth, elem) ==
    [shape   |-> <<n0, n1, depth>>,
     strides |-> <<depth, depth * n0, 1>>,
     buf     |-> [k \in 1 .. n0 * n1 * depth |->
                    elem[<<((k - 1) % (n0 * depth)) \div depth,
                           (k - 1) \div (n0 * depth),
                           (k - 1) % depth>>]]]

Layouts == {"C", "F"}
NdOfLayout(layout, n0, n1, depth, elem) ==
    IF layout = "F" THEN NdNewF(n0, n1, depth, elem) ELSE NdNew(n0, n1, depth, elem)

MaxBox == 3          \* boxes 2 .. MaxBox

\* the values an image holds: its own index, or a ramp along the rows
ImageKinds == {"index", "rows"}
ImageElem(kind, W, ijc) ==
    IF kind = "index" THEN RInt((ijc[1] * W + ijc[2]) * 2 + ijc[3])
    ELSE Rat(ijc[1] + 1, 4 + ijc[3])

InitDecimate ==
    /\ pc = "new"
    /\ \E H \in 1 .. MaxH, W \in 1 .. MaxW, layout \in Layouts, kind \in ImageKinds :
           dec_image = NdOfLayout(layout, H, W, 2,
                                  [ijc \in Idx3(H, W, 2) |-> ImageElem(kind, W, ijc)])
    /\ dec_box \in 2 .. MaxBox
    /\ tile_means = None
    /\ decimation = None /\ scale = None /\ field_x = None /\ field_y = None
    /\ points = <<>> /\ rect = EmptyRect /\ lines = <<>> /\ pen = None
    /\ frame = None /\ show = None /\ self_frame = None
    /\ show_list = <<>> /\ affinity_field = <<>> /\ raised = "none"
    /\ NoRepeat /\ NoHourglass

\* a call of _decimate
Decimate ==
    /\ pc = "new"
    /\ tile_means' = _decimate(dec_image, dec_box)
    /\ pc' = "built"
    /\ UNCHANGED <<dec_image, dec_box>>
    /\ UNCHANGED <<field_x, field_y, decimation, scale, points, rect, lines, pen>>
    /\ UNCHANGED <<multi_vars, repeat_vars, hourglass_vars>>

NextDecimate == Decimate

SpecDecimate == InitDecimate /\ [][NextDecimate]_vars

ColumnMajor(a) == a.strides[1] < a.strides[2]

\* the mean of component c over rows [i*B, i*B+B) and columns [j*B, j*B+B)
ImageBlockMean(a, B, i, j, c) ==
    LET offs == TileOffsets(B, B, 0)
    IN  RDiv(RSum([k \in 1 .. Len(offs) |->
                     NdGet(a, i * B + offs[k][1], j * B + offs[k][2], c)]),
             RInt(B * B))

\* the array t holds, at every (i, j), the block means of image a
HoldsBlockMeans(t, a, B) ==
    /\ t.shape = <<a.shape[1] \div B, a.shape[2] \div B, a.shape[3]>>
    /\ \A ijc \in Idx3(t.shape[1], t.shape[2], t.shape[3]) :
           NdGet(t, ijc[1], ijc[2], ijc[3]) = ImageBlockMean(a, B, ijc[1], ijc[2], ijc[3])

\* C27: whether the image is stored row-major or column-major, _decimate
\* returns for every tile (i, j) the mean over rows [i*B, i*B+B) and columns
\* [j*B, j*B+B) of the image.
C27_StorageOrderIndependent ==
    (tile_means # None) => HoldsBlockMeans(tile_means, dec_image, dec_box)

\* the row-major part of C27
RowMajorBlockMeans ==
    (tile_means # None /\ ~ColumnMajor(dec_image)) =>
        HoldsBlockMeans(tile_means, dec_image, dec_box)

\* the column-major part of C27 where it holds: square images
SquareColumnMajorBlockMeans ==
    (tile_means # None /\ ColumnMajor(dec_image)
        /\ dec_image.shape[1] = dec_image.shape[2]) =>
        HoldsBlockMeans(tile_means, dec_image, dec_box)

\* on a column-major image the result has its two axes exchanged
ColumnMajorShape ==
    (tile_means # None /\ ColumnMajor(dec_image)) =>
        tile_means.shape = <<dec_image.shape[2] \div dec_box,
                             dec_image.shape[1] \div dec_box, 2>>

-----------------------------------------------------------------------------
(* A QuiverPlot under scale factors above 1 *)

\* scale factors: 1, 8/5 and 4
WideScales == {Rat(1, 1), Rat(8, 5), Rat(4, 1)}

InitWide ==
    /\ pc = "new"
    /\ decimation \in 1 .. MaxDecimation
    /\ scale \in WideScales
    /\ \/ field_x = None /\ field_y = None
       \/ \E H \in 1 .. MaxH, W \in 1 .. MaxW :
            \E p \in Idx2(H, W), v \in Vecs, bg \in Backgrounds :
                /\ field_x = SeedField(H, W, p, v, bg, 1)
                /\ field_y = SeedField(H, W, p, v, bg, 2)
    /\ points = <<>>
    /\ rect = EmptyRect
    /\ lines = <<>>
    /\ pen = None
    /\ frame = None /\ show = None /\ self_frame = None
    /\ show_list = <<>> /\ affinity_field = <<>> /\ raised = "none"
    /\ NoRepeat /\ NoHourglass /\ NoDecimate

SpecWide == InitWide /\ [][Next]_vars

\* the rectangle C30 names: (0, 0, int(W / scale), int(H / scale))
ScaledRect ==
    <<0, 0, RTrunc(RDiv(RInt(field_x.shape[2]), scale)),
            RTrunc(RDiv(RInt(field_x.shape[1]), scale))>>

\* the tail of glyph g lies inside rectangle r
TailInside(g, r) ==
    /\ RLe(RZero, TailOf(g)[1]) /\ RLe(TailOf(g)[1], RInt(r[3]))
    /\ RLe(RZero, TailOf(g)[2]) /\ RLe(TailOf(g)[2], RInt(r[4]))

\* C30: the bounding rectangle of a built plot is (0, 0, int(W/scale),
\* int(H/scale)), and the tail (x1, y1) of every emitted glyph satisfies
\* 0 <= x1 <= int(W/scale) and 0 <= y1 <= int(H/scale).
C30_TailsInsideRect ==
    Built =>
        /\ rect = ScaledRect
        /\ \A g \in 1 .. NumGlyphs : TailInside(g, rect)

\* the rectangle part of C30
RectIsScaledShape == Built => rect = ScaledRect

\* the tail part of C30 where it does not depend on the scale: scale 1
TailsInsideRectUnscaled ==
    (Built /\ scale = Rat(1, 1)) => \A g \in 1 .. NumGlyphs : TailInside(g, rect)

\* tails are never left of or above the rectangle
TailsNonNegative ==
    Built => \A g \in 1 .. NumGlyphs :
                 RLe(RZero, TailOf(g)[1]) /\ RLe(RZero, TailOf(g)[2])

\* with every pixel drawn (B = 1) a tail leaves the rectangle through the
\* truncation of int() alone
TruncatedRectLosesTail ==
    /\ Built /\ decimation = 1 /\ scale = Rat(8, 5)
    /\ \E g \in 1 .. NumGlyphs : ~TailInside(g, rect)

-----------------------------------------------------------------------------
(* A series of render requests.  The caller keeps its frame arrays between  *)
(* requests and passes one of them, by reference, to every constructor      *)
(* call; `remembered` records one earlier request with what it returned.    *)

\* the caller's arrays: 2 x 2 pixels of 4 components (two channels), and one
\* array without components
\*   "a": values within [0, 1];     "b": as "a" on channel 0, -1/2 elsewhere;
\*   "c": as "a" on channel 0, 100 elsewhere;
\*   "d": multiples of 51;          "e": as "d" on channel 0, 2040 elsewhere
RepeatNames == {"a", "b", "c", "d", "e", "z"}
RepeatElem(name, i, j, c) ==
    LET small == Rat(c + 1 + i, 8)
        bytes == RInt(51 * (c + 1 + i))
    IN  CASE name = "a" -> small
          [] name = "b" -> IF c < 2 THEN small ELSE Rat(-1, 2)
          [] name = "c" -> IF c < 2 THEN small ELSE RInt(100)
          [] name = "d" -> bytes
          [] name = "e" -> IF c < 2 THEN bytes ELSE RInt(2040)
          [] OTHER -> RZero
CallerArrays ==
    [name \in RepeatNames |->
        IF name = "z" THEN FrameOf(1, 1, 0, "zero")
        ELSE [shape |-> <<2, 2, 4>>,
              at    |-> [ijc \in Idx3(2, 2, 4) |->
                            RepeatElem(name, ijc[1], ijc[2], ijc[3])]]]

\* the arguments of a request
RepeatShows == {None, [list |-> <<1, 0>>], [list |-> <<-4>>]}
RepeatDecimations == 0 .. 2
RepeatScales == {Rat(1, 1), Rat(1, 2)}

InitRepeat ==
    /\ pc = "new"
    /\ arrays = CallerArrays
    /\ frame_id \in RepeatNames
    /\ frame = arrays[frame_id]
    /\ show \in RepeatShows
    /\ decimation \in RepeatDecimations
    /\ scale \in RepeatScales
    /\ remembered = None
    /\ self_frame = None /\ show_list = <<>> /\ affinity_field = <<>>
    /\ raised = "none"
    /\ field_x = None /\ field_y = None
    /\ points = <<>> /\ rect = EmptyRect /\ lines = <<>> /\ pen = None
    /\ NoHourglass /\ NoDecimate

\* the constructor call MultiQuiverPlot(arrays[frame_id], show, decimation,
\* scale); the request and its outcome may be remembered
Render ==
    /\ pc = "new"
    /\ \E r \in {MultiQuiverPlotNew(arrays[frame_id], show, decimation, scale)} :
           /\ raised' = r.raised
           /\ arrays' = [arrays EXCEPT ![frame_id] = r.caller]
           /\ frame' = r.caller
           /\ self_frame' = r.frame
           /\ show_list' = r.show_list
           /\ affinity_field' = r.affinity_field
           /\ remembered' \in
                 {remembered,
                  [frame_id |-> frame_id, frame |-> arrays[frame_id], show |-> show,
                   decimation |-> decimation, scale |-> scale,
                   raised |-> r.raised, self_frame |-> r.frame,
                   show_list |-> r.show_list,
                   affinity_field |-> r.affinity_field]}
    /\ pc' = "built"
    /\ UNCHANGED <<frame_id, show, decimation, scale>>
    /\ UNCHANGED <<field_x, field_y, points, rect, lines, pen>>
    /\ UNCHANGED <<hourglass_vars, decimate_vars>>

\* the caller prepares its next request
Request ==
    /\ pc = "built"
    /\ frame_id' \in RepeatNames
    /\ frame' = arrays[frame_id']
    /\ show' \in RepeatShows
    /\ decimation' \in RepeatDecimations
    /\ scale' \in RepeatScales
    /\ self_frame' = None /\ show_list' = <<>> /\ affinity_field' = <<>>
    /\ raised' = "none"
    /\ pc' = "new"
    /\ UNCHANGED <<arrays, remembered>>
    /\ UNCHANGED <<field_x, field_y, points, rect, lines, pen>>
    /\ UNCHANGED <<hourglass_vars, decimate_vars>>

NextRepeat == Render \/ Request

SpecRepeat == InitRepeat /\ [][NextRepeat]_vars

\* C21: after any render request, whatever its arguments and whether or not
\* the frame was normalized, every array of the caller, the frame passed
\* included, holds the values it held before.
C21_FrameNotMutated ==
    (arrays # None) =>
        /\ arrays = CallerArrays
        /\ frame = CallerArrays[frame_id]

\* a second request has been served, on a frame that was normalized and
\* decimated into at least one glyph
C21_Witness ==
    /\ arrays # None /\ pc = "built" /\ remembered # None
    /\ raised = "none"
    /\ decimation = 2
    /\ self_frame # frame
    /\ Len(affinity_field) >= 1
    /\ affinity_field[1].points # <<>>
    /\ frame = CallerArrays[frame_id]

\* the request being served has the arguments of the remembered one: the
\* same array of the caller, the same selection, decimation and scale
SameRequest ==
    /\ remembered.frame_id = frame_id
    /\ remembered.show = show
    /\ remembered.decimation = decimation
    /\ remembered.scale = scale

\* C23: two render requests with identical (frame, selection, decimation,
\* scale) have identical outcomes: the same glyph groups in the same order,
\* with the same colors, pen widths and points (or the same exception),
\* whatever requests, failing ones included, were served in between.
C23_RequestsIdempotent ==
    (arrays # None /\ pc = "built" /\ remembered # None /\ SameRequest) =>
        /\ raised = remembered.raised
        /\ show_list = remembered.show_list
        /\ affinity_field = remembered.affinity_field

\* a request served a second time, on the frame whose values are largest,
\* with two glyph groups
C23_Witness ==
    /\ arrays # None /\ pc = "built" /\ remembered # None /\ SameRequest
    /\ frame_id = "e" /\ remembered.frame = frame
    /\ raised = "none"
    /\ Len(affinity_field) = 2
    /\ affinity_field[1].points # <<>>
    /\ affinity_field[1].color # affinity_field[2].color

\* components 2k and 2k + 1 of F and G are equal
AgreeOnChannel(F, G, k) ==
    /\ F.shape = G.shape
    /\ 2 * k + 1 < F.shape[3]
    /\ \A ijc \in DOMAIN F.at :
           (ijc[3] \in {2 * k, 2 * k + 1}) => F.at[ijc] = G.at[ijc]

\* both frames have elements, and the test of line 55 has the same outcome
SameRangeTest(F, G) ==
    /\ ~PtpRaises(F) /\ ~PtpRaises(G)
    /\ NeedsRescale(Ptp(F)) = NeedsRescale(Ptp(G))

\* C28: the range test is made once over the whole frame, so the frame kept
\* is the whole frame divided by 255 or the whole frame as passed; and for two
\* frames that agree on components 2k and 2k+1 and on the outcome of the range
\* test, the glyph group of channel k is the same (same selection, decimation
\* and scale), whatever the other channels hold.
C28_ChannelsIndependent ==
    (arrays # None /\ pc = "built" /\ ~PtpRaises(frame)) =>
        /\ self_frame = IF NeedsRescale(Ptp(frame)) THEN Rescaled(frame) ELSE frame
        /\ (/\ remembered # None
            /\ raised = "none" /\ remembered.raised = "none"
            /\ remembered.show = show
            /\ remembered.decimation = decimation
            /\ remembered.scale = scale
            /\ SameRangeTest(remembered.frame, frame)) =>
               \A n \in 1 .. Len(show_list) :
                   (/\ show_list[n] \in 0 .. 1
                    /\ AgreeOnChannel(remembered.frame, frame, show_list[n])) =>
                       LET m == Cardinality({q \in 1 .. n : show_list[q] < 2})
                       IN  affinity_field[m] = remembered.affinity_field[m]

\* two different byte-valued frames that agree on channel 0 were rendered
\* with the same arguments, and the group of channel 0 has glyphs
C28_Witness ==
    /\ arrays # None /\ pc = "built" /\ remembered # None
    /\ raised = "none" /\ remembered.raised = "none"
    /\ remembered.frame_id = "d" /\ frame_id = "e"
    /\ remembered.show = show /\ show = [list |-> <<1, 0>>]
    /\ remembered.decimation = decimation /\ remembered.scale = scale
    /\ SameRangeTest(remembered.frame, frame)
    /\ AgreeOnChannel(remembered.frame, frame, 0)
    /\ self_frame = Rescaled(frame) /\ self_frame # frame
    /\ Len(affinity_field) = 2
    /\ affinity_field[2].points # <<>>
    /\ affinity_field[2] = remembered.affinity_field[2]
    /\ affinity_field[1] # remembered.affinity_field[1]

====
